---- MODULE Spec2Model ----
(***************************************************************************)
(* Model of the gowalker traversal engine (src/walker.go): Walk and the    *)
(* recursive procedure walkRecursive, run as an explicit stack machine     *)
(* over small object graphs.                                               *)
(***************************************************************************)
EXTENDS Integers, Sequences, FiniteSets, TLC

\* ------------------------------------------------------------------ bounds
MaxDepthBound == 2
NumFuncs == 2
MaxErrAt == 3
MaxStack == 14

\* ------------------------------------------------------- program constants
DefaultMaxDepth == 10

NoVal == 0
NoNode == 0
NoErr == "nil"

\* ------------------------------------------------------------ object graphs
\* A value of the graph.  name/str/pkg are reflect.Type's Name(), String() and
\* PkgPath() # "".  addr is the pointer's address (0 for a nil pointer), elem
\* the value it points to.  A member or element holding NoVal is a nil
\* interface value; one holding a non-nil interface is its dynamic value,
\* because walkRecursive re-wraps every value with reflect.ValueOf, which
\* never yields kind Interface.
Val(kind, name, str, pkg, addr, elem, fields, elems, entries) ==
  [kind |-> kind, name |-> name, str |-> str, pkg |-> pkg, addr |-> addr,
   elem |-> elem, fields |-> fields, elems |-> elems, entries |-> entries]

IntV == Val("int", "int", "int", FALSE, 0, NoVal, <<>>, <<>>, {})
StringV == Val("string", "string", "string", FALSE, 0, NoVal, <<>>, <<>>, {})
PtrV(str, addr, elem) == Val("ptr", "", str, FALSE, addr, elem, <<>>, <<>>, {})
StructV(name, str, pkg, fields) ==
  Val("struct", name, str, pkg, 0, NoVal, fields, <<>>, {})
SliceV(str, elems) == Val("slice", "", str, FALSE, 0, NoVal, <<>>, elems, {})
MapV(str, entries) == Val("map", "", str, FALSE, 0, NoVal, <<>>, <<>>, entries)

\* A declared member: reflect.StructField's Name, Tag and PkgPath = "".
Field(name, tag, exported, val) ==
  [name |-> name, tag |-> tag, exported |-> exported, val |-> val]

\* A map key with its dynamic type; a map entry.
IntKey(i) == [t |-> "int", i |-> i, s |-> ""]
StrKey(s) == [t |-> "string", i |-> 0, s |-> s]
Entry(key, val) == [key |-> key, val |-> val]

FilterTrue == << <<"filter", "true">> >>
NoTag == <<>>

\* &struct{ Field1 struct{ SubField1 struct{ SubSubField1 int } } }{}
HeapNested ==
  << PtrV("*struct { Field1 struct { SubField1 struct { SubSubField1 int } } }", 1, 2),
     StructV("", "struct { Field1 struct { SubField1 struct { SubSubField1 int } } }",
             FALSE, << Field("Field1", NoTag, TRUE, 3) >>),
     StructV("", "struct { SubField1 struct { SubSubField1 int } }",
             FALSE, << Field("SubField1", NoTag, TRUE, 4) >>),
     StructV("", "struct { SubSubField1 int }",
             FALSE, << Field("SubSubField1", NoTag, TRUE, 5) >>),
     IntV >>

\* struct{ Field1 int `filter:"true"`; Field2 string }{}
HeapTagged ==
  << StructV("", "struct { Field1 int \"filter:\\\"true\\\"\"; Field2 string }", FALSE,
             << Field("Field1", FilterTrue, TRUE, 2),
                Field("Field2", NoTag, TRUE, 3) >>),
     IntV, StringV >>

\* type Node struct{ Next *Node };  n := &Node{};  n.Next = n
HeapPtrCycle ==
  << PtrV("*main.Node", 1, 2),
     StructV("Node", "main.Node", TRUE, << Field("Next", NoTag, TRUE, 1) >>) >>

\* m := map[string]interface{}{};  m["self"] = m
HeapSelfMap ==
  << MapV("map[string]interface {}", { Entry(StrKey("self"), 1) }) >>

\* s := make([]interface{}, 1);  s[0] = s
HeapSelfSlice ==
  << SliceV("[]interface {}", << 1 >>) >>

\* p := new(int);  map[string]*int{"a": p, "b": p}
HeapSharedPtr ==
  << MapV("map[string]*int", { Entry(StrKey("a"), 2), Entry(StrKey("b"), 2) }),
     PtrV("*int", 1, 3), IntV >>

\* map[interface{}]int{1: 10, "1": 20}
HeapKeyClash ==
  << MapV("map[interface {}]int", { Entry(IntKey(1), 2), Entry(StrKey("1"), 2) }),
     IntV >>

\* struct{ Pub int; priv int }{}
HeapUnexported ==
  << StructV("", "struct { Pub int; priv int }", FALSE,
             << Field("Pub", NoTag, TRUE, 2), Field("priv", NoTag, FALSE, 2) >>),
     IntV >>

\* struct{ P *int; I interface{}; L []int }{}  (nil pointer, nil interface)
HeapNils ==
  << StructV("", "struct { P *int; I interface {}; L []int }", FALSE,
             << Field("P", NoTag, TRUE, 2), Field("I", NoTag, TRUE, NoVal),
                Field("L", NoTag, TRUE, 3) >>),
     PtrV("*int", 0, NoVal),
     SliceV("[]int", << 4, 4 >>),
     IntV >>

\* obj := struct{ Name, Value string }{...};  Walk(&obj, ...)   (README)
HeapReadme ==
  << PtrV("*struct { Name string; Value string }", 1, 2),
     StructV("", "struct { Name string; Value string }", FALSE,
             << Field("Name", NoTag, TRUE, 3), Field("Value", NoTag, TRUE, 3) >>),
     StringV >>

\* type Inner struct{ X int };  struct{ In Inner; N int }{}
HeapNamedMember ==
  << StructV("", "struct { In main.Inner; N int }", FALSE,
             << Field("In", NoTag, TRUE, 2), Field("N", NoTag, TRUE, 3) >>),
     StructV("Inner", "main.Inner", TRUE, << Field("X", NoTag, TRUE, 3) >>),
     IntV >>

\* p := new(int);  struct{ A struct{ P *int }; P *int }{A: {p}, P: p}
HeapSharedDeep ==
  << StructV("", "struct { A struct { P *int }; P *int }", FALSE,
             << Field("A", NoTag, TRUE, 2), Field("P", NoTag, TRUE, 3) >>),
     StructV("", "struct { P *int }", FALSE, << Field("P", NoTag, TRUE, 3) >>),
     PtrV("*int", 1, 4),
     IntV >>

Input(heap, root) == [heap |-> heap, root |-> root]

Inputs ==
  { Input(HeapNested, 1), Input(HeapNested, 2), Input(HeapTagged, 1),
    Input(HeapPtrCycle, 1), Input(HeapSelfMap, 1), Input(HeapSelfSlice, 1),
    Input(HeapSharedPtr, 1), Input(HeapKeyClash, 1), Input(HeapUnexported, 1),
    Input(HeapNils, 1), Input(HeapNils, NoVal), Input(HeapReadme, 1),
    Input(HeapNamedMember, 1), Input(HeapSharedDeep, 1) }

\* ------------------------------------------------------ predicates (filters)
NilFilter == [fn |-> "nil", key |-> "", vals |-> <<>>]

\* reflect.StructTag.Lookup: the value of the first key/value pair with the key.
TagLookup(tag, tagKey) ==
  LET hits == { i \in 1..Len(tag) : tag[i][1] = tagKey }
  IN  IF hits = {} THEN [exists |-> FALSE, value |-> ""]
      ELSE [exists |-> TRUE,
            value |-> tag[CHOOSE i \in hits : \A j \in hits : i <= j][2]]

TagExists(tagKey, values) == [fn |-> "TagExists", key |-> tagKey, vals |-> values]
IgnoreTag(tagKey, values) == [fn |-> "IgnoreTag", key |-> tagKey, vals |-> values]
TypeIsOneOf(allowedTypes) == [fn |-> "TypeIsOneOf", key |-> "", vals |-> allowedTypes]
IgnoreType(disallowedTypes) == [fn |-> "IgnoreType", key |-> "", vals |-> disallowedTypes]
\* The test suite's metadata predicate, func(meta) bool { return meta.Name == name }.
MetaNameIs(name) == [fn |-> "MetaNameIs", key |-> name, vals |-> <<>>]

OneOf(vals, x) == \E i \in 1..Len(vals) : vals[i] = x

\* Calling a TagFilter closure on a member's tag.
TagFilterAccepts(f, tag) ==
  LET l == TagLookup(tag, f.key)
  IN  IF f.fn = "TagExists"
      THEN l.exists /\ (Len(f.vals) = 0 \/ OneOf(f.vals, l.value))
      ELSE ~l.exists \/ (Len(f.vals) # 0 /\ ~OneOf(f.vals, l.value))

\* Calling a TypeFilter closure on a reflect.Type (compared by identity).
TypeFilterAccepts(f, t) ==
  IF f.fn = "TypeIsOneOf" THEN OneOf(f.vals, t) ELSE ~OneOf(f.vals, t)

\* Calling the MetaFilter closure on a FieldMeta.
MetaFilterAccepts(f, meta) == meta.Name = f.key

\* ------------------------------------------------------- settings and options
\* A user callback: it returns err at its failAt-th invocation (0: never).
UserFn(id, failAt) ==
  [id |-> id, failAt |-> failAt, err |-> "error" \o ToString(id)]
NoFn == [id |-> 0, failAt |-> 0, err |-> NoErr]

Opt(op, n, f, u) == [op |-> op, n |-> n, f |-> f, u |-> u]
MaxDepth(depth) == Opt("MaxDepth", depth, NilFilter, NoFn)
PrivateFields == Opt("PrivateFields", 0, NilFilter, NoFn)
OnlySettable == Opt("OnlySettable", 0, NilFilter, NoFn)
WithMetaFilter(fn) == Opt("WithMetaFilter", 0, fn, NoFn)
WithTagFilter(fn) == Opt("WithTagFilter", 0, fn, NoFn)
WithTypeFilter(fn) == Opt("WithTypeFilter", 0, fn, NoFn)
WithUserFunc(fn) == Opt("WithUserFunc", 0, NilFilter, fn)

defaultSettings ==
  [maxDepth |-> DefaultMaxDepth, includePrivate |-> TRUE, onlySettable |-> FALSE,
   tagFilter |-> NilFilter, typeFilter |-> NilFilter, metaFilter |-> NilFilter,
   userFuncs |-> <<>>]

ApplyOption(s, o) ==
  CASE o.op = "MaxDepth" -> [s EXCEPT !.maxDepth = o.n]
    [] o.op = "PrivateFields" -> [s EXCEPT !.includePrivate = TRUE]
    [] o.op = "OnlySettable" -> [s EXCEPT !.onlySettable = TRUE]
    [] o.op = "WithMetaFilter" -> [s EXCEPT !.metaFilter = o.f]
    [] o.op = "WithTagFilter" -> [s EXCEPT !.tagFilter = o.f]
    [] o.op = "WithTypeFilter" -> [s EXCEPT !.typeFilter = o.f]
    [] o.op = "WithUserFunc" -> [s EXCEPT !.userFuncs = Append(@, o.u)]

RECURSIVE ApplyOptions(_, _)
ApplyOptions(s, opts) ==
  IF opts = <<>> THEN s
  ELSE ApplyOptions(ApplyOption(s, Head(opts)), Tail(opts))

\* The option lists the walks are started with.  MaxDepth takes any int: a
\* negative depth is one of the choices, and with it the depth guard already
\* refuses the root (depth 0).
DepthOpts == { <<>> } \cup { << MaxDepth(n) >> : n \in (-1)..MaxDepthBound }
FilterOpts ==
  { <<>>,
    << WithTagFilter(TagExists("filter", << "true" >>)) >>,
    << WithTypeFilter(TypeIsOneOf(<< "int" >>)) >>,
    << WithMetaFilter(MetaNameIs("Field1")) >>,
    << OnlySettable >>,
    << PrivateFields >> }
\* n callbacks, of which callback bad (0: none) fails at its at-th invocation.
FuncList(n, bad, at) ==
  [ i \in 1..n |-> WithUserFunc(UserFn(i, IF i = bad THEN at ELSE 0)) ]
FuncOpts ==
  { FuncList(n, 0, 0) : n \in 1..NumFuncs }
    \cup UNION { { FuncList(n, bad, at) : bad \in 1..n, at \in 1..MaxErrAt }
                 : n \in 1..NumFuncs }
OptionLists == { d \o f \o u : d \in DepthOpts, f \in FilterOpts, u \in FuncOpts }

\* ------------------------------------------------------------------- state
VARIABLES
  input,      \* the object graph and root handed to Walk
  options,    \* the options handed to Walk
  status,     \* "idle", "running", "ok", "err" or "panic"
  settings,   \* the walkSettings of the running call
  visited,    \* map[uintptr]bool of the running call
  stack,      \* the walkRecursive frames, innermost last
  nodes,      \* the FieldMeta objects allocated by the call, by identity
  flatMap,    \* the sync.Map of the call: a set of [path, node]
  calls,      \* history: the callback invocations of the call, in order
  members,    \* history: the record members the struct loop has decided on
  err,        \* the error being returned up the frames
  ret,        \* the node the outermost walkRecursive returned
  result,     \* what Walk returned
  run,        \* 1 for the first walk of the input, 2 for the second
  prevPaths   \* the paths the first walk visited

vars == << input, options, status, settings, visited, stack, nodes, flatMap,
           calls, members, err, ret, result, run, prevPaths >>

NoResult == [root |-> NoNode, flatNil |-> TRUE, flat |-> {}, err |-> NoErr]

Init ==
  /\ input \in Inputs
  /\ options \in OptionLists
  /\ status = "idle"
  /\ settings = defaultSettings
  /\ visited = {}
  /\ stack = <<>>
  /\ nodes = <<>>
  /\ flatMap = {}
  /\ calls = <<>>
  /\ members = <<>>
  /\ err = NoErr
  /\ ret = NoNode
  /\ result = NoResult
  /\ run = 1
  /\ prevPaths = {}

\* ------------------------------------------------------------ walkRecursive
Heap == input.heap
Top == stack[Len(stack)]
Running == status = "running" /\ err = NoErr /\ stack # <<>>

\* t.Name(), or t.String() when the type has no declared name.
TypeName(v) == IF v.name = "" THEN v.str ELSE v.name

\* reflect.ValueOf(obj).CanSet(): a Value made by ValueOf is not addressable.
ValueCanSet(v) == FALSE
\* v.Field(i).CanSet(): addressable (inherited from v) and exported.
FieldCanSet(v, f) == ValueCanSet(v) /\ f.exported

\* fmt's %v of a map key.
KeyRepr(key) == IF key.t = "int" THEN ToString(key.i) ELSE key.s

DerefPath(path) == path \o ".*"
MemberPath(path, f) == path \o "." \o f.name
IndexPath(path, i) == path \o "[" \o ToString(i - 1) \o "]"
KeyPath(path, key) == path \o "[" \o KeyRepr(key) \o "]"

Frame(val, depth, path) ==
  [val |-> val, depth |-> depth, path |-> path, pc |-> "entry",
   meta |-> NoNode, i |-> 1, keys |-> {}]

\* The depth guard.
DepthGuardOff(depth, s) == FALSE
DepthGuardLate(depth, s) == depth > s.maxDepth + 1
DepthExceeded(depth, s) == depth > s.maxDepth

\* The cycle guard: a non-nil pointer whose address the call has recorded.
AlreadyVisited(v, seen) == v.kind = "ptr" /\ v.addr # 0 /\ v.addr \in seen
MarkVisited(v, seen) ==
  IF v.kind = "ptr" /\ v.addr # 0 THEN seen \cup { v.addr } ELSE seen

NewMeta(v, path) ==
  [Name |-> TypeName(v), Type |-> v.str, CanSet |-> ValueCanSet(v),
   IsPrivate |-> v.pkg, Path |-> path, Parent |-> NoNode, Children |-> <<>>]

\* History kept with a node, not fields of FieldMeta: the value and the
\* recursion depth the node was built for.
Born(fr) == [val |-> fr.val, depth |-> fr.depth]

\* flatMap.Store(path, meta)
StoreSkipped(fm, path, meta) == fm
Store(fm, path, meta) ==
  { e \in fm : e.path # path } \cup { [path |-> path, node |-> meta] }

\* The parent's attach step: append to Children, set the child's Parent.
AttachNoParent(ns, parent, child) ==
  [ns EXCEPT ![parent].Children = Append(@, child)]
Attach(ns, parent, child) ==
  [ns EXCEPT ![parent].Children = Append(@, child), ![child].Parent = parent]

\* The innermost frame returns (child, nil) to its caller.
ReturnNode(child) ==
  /\ stack' = SubSeq(stack, 1, Len(stack) - 1)
  /\ IF Len(stack) = 1
     THEN ret' = child /\ nodes' = nodes
     ELSE /\ ret' = ret
          /\ nodes' = IF child = NoNode THEN nodes
                      ELSE Attach(nodes, stack[Len(stack) - 1].meta, child)

\* The struct loop's three `continue` conditions, in the order of the code.
SkipMemberNoTag(s, v, f) ==
  \/ ~s.includePrivate /\ ~f.exported
  \/ s.onlySettable /\ ~FieldCanSet(v, f)
SkipMember(s, v, f) ==
  \/ s.tagFilter.fn # "nil" /\ ~TagFilterAccepts(s.tagFilter, f.tag)
  \/ ~s.includePrivate /\ ~f.exported
  \/ s.onlySettable /\ ~FieldCanSet(v, f)

\* The children left to walk in a frame that is past its callbacks.
HasNext(fr) ==
  LET v == Heap[fr.val]
  IN  CASE v.kind = "ptr" -> fr.i = 1 /\ v.addr # 0
        [] v.kind = "struct" -> fr.i <= Len(v.fields)
        [] v.kind = "slice" -> fr.i <= Len(v.elems)
        [] v.kind = "map" -> fr.keys # {}
        [] OTHER -> FALSE

\* What Walk hands back.
WalkResultPartial(root, fm, e) ==
  [root |-> root, flatNil |-> FALSE, flat |-> fm, err |-> e]
WalkResult(root, fm, e) ==
  IF e # NoErr
  THEN [root |-> NoNode, flatNil |-> TRUE, flat |-> {}, err |-> e]
  ELSE [root |-> root, flatNil |-> FALSE, flat |-> fm, err |-> NoErr]

\* ----------------------------------------------------------------- actions
\* Walk, up to its call of walkRecursive.  reflect.TypeOf(nil) is nil and
\* t.Name() on it panics.
WalkCall ==
  /\ status = "idle"
  /\ settings' = ApplyOptions(defaultSettings, options)
  /\ visited' = {}
  /\ flatMap' = {}
  /\ IF input.root = NoVal
     THEN status' = "panic" /\ stack' = stack
     ELSE /\ status' = "running"
          /\ stack' = << Frame(input.root, 0, TypeName(Heap[input.root])) >>
  /\ UNCHANGED << input, options, nodes, calls, members, err, ret, result,
                  run, prevPaths >>

\* walkRecursive from its entry to flatMap.Store: the three guards, then the
\* node is built and stored.
Enter ==
  /\ Running
  /\ Top.pc = "entry"
  /\ LET fr == Top
         top == Len(stack)
     IN  IF \/ DepthExceeded(fr.depth, settings)
            \/ fr.val = NoVal
            \/ AlreadyVisited(Heap[fr.val], visited)
         THEN /\ ReturnNode(NoNode)
              /\ UNCHANGED << visited, flatMap >>
         ELSE LET v == Heap[fr.val]
                  id == Len(nodes) + 1
              IN  /\ visited' = MarkVisited(v, visited)
                  /\ nodes' = Append(nodes, NewMeta(v, fr.path) @@ Born(fr))
                  /\ flatMap' = Store(flatMap, fr.path, id)
                  /\ stack' = [stack EXCEPT
                       ![top].meta = id,
                       ![top].i = 1,
                       ![top].keys = v.entries,
                       ![top].pc = IF settings.userFuncs = <<>>
                                   THEN "children" ELSE "callbacks"]
                  /\ ret' = ret
  /\ UNCHANGED << input, options, status, settings, calls, members, err,
                  result, run, prevPaths >>

\* One turn of the loop over settings.userFuncs: fn(v, *meta).
TimesCalled(id) == Cardinality({ k \in 1..Len(calls) : calls[k].fn = id })

Callback ==
  /\ Running
  /\ Top.pc = "callbacks"
  /\ LET fr == Top
         top == Len(stack)
         fn == settings.userFuncs[fr.i]
         e == IF fn.failAt = TimesCalled(fn.id) + 1 THEN fn.err ELSE NoErr
     IN  /\ calls' = Append(calls,
                       [fn |-> fn.id, val |-> fr.val, path |-> fr.path,
                        depth |-> fr.depth, node |-> fr.meta,
                        meta |-> nodes[fr.meta], err |-> e])
         /\ err' = e
         /\ IF e # NoErr
            THEN stack' = SubSeq(stack, 1, top - 1)
            ELSE IF fr.i < Len(settings.userFuncs)
                 THEN stack' = [stack EXCEPT ![top].i = fr.i + 1]
                 ELSE stack' = [stack EXCEPT ![top].i = 1, ![top].pc = "children"]
  /\ UNCHANGED << input, options, status, settings, visited, nodes, flatMap,
                  members, ret, result, run, prevPaths >>

\* One turn of the kind dispatch: the next child is walked, a member is
\* skipped, or fieldVal.Interface() panics on an unexported member.
Push(top, next, child) ==
  stack' = Append([stack EXCEPT ![top].i = next], child)

Descend ==
  /\ Running
  /\ Top.pc = "children"
  /\ HasNext(Top)
  /\ Len(stack) < MaxStack
  /\ LET fr == Top
         top == Len(stack)
         v == Heap[fr.val]
     IN  CASE v.kind = "ptr" ->
                /\ Push(top, 2, Frame(v.elem, fr.depth + 1, DerefPath(fr.path)))
                /\ UNCHANGED << status, members >>
           [] v.kind = "struct" ->
                LET f == v.fields[fr.i]
                    skip == SkipMember(settings, v, f)
                    entry == [path |-> MemberPath(fr.path, f), tag |-> f.tag,
                              exported |-> f.exported,
                              canSet |-> FieldCanSet(v, f), descended |-> ~skip]
                IN  /\ members' = Append(members, entry)
                    /\ IF skip
                       THEN /\ stack' = [stack EXCEPT ![top].i = fr.i + 1]
                            /\ status' = status
                       ELSE IF ~f.exported
                            THEN status' = "panic" /\ stack' = stack
                            ELSE /\ Push(top, fr.i + 1,
                                      Frame(f.val, fr.depth + 1, MemberPath(fr.path, f)))
                                 /\ status' = status
           [] v.kind = "slice" ->
                /\ Push(top, fr.i + 1,
                        Frame(v.elems[fr.i], fr.depth + 1, IndexPath(fr.path, fr.i)))
                /\ UNCHANGED << status, members >>
           [] v.kind = "map" ->
                /\ \E e \in fr.keys :
                     stack' = Append([stack EXCEPT ![top].keys = fr.keys \ { e }],
                                Frame(e.val, fr.depth + 1, KeyPath(fr.path, e.key)))
                /\ UNCHANGED << status, members >>
  /\ UNCHANGED << input, options, settings, visited, nodes, flatMap, calls,
                  err, ret, result, run, prevPaths >>

\* `return meta, nil`, and the caller's attach step.
Return ==
  /\ Running
  /\ Top.pc = "children"
  /\ ~HasNext(Top)
  /\ ReturnNode(Top.meta)
  /\ UNCHANGED << input, options, status, settings, visited, flatMap, calls,
                  members, err, result, run, prevPaths >>

\* `return nil, err` in a frame whose callee returned an error.
Unwind ==
  /\ status = "running"
  /\ err # NoErr
  /\ stack # <<>>
  /\ stack' = SubSeq(stack, 1, Len(stack) - 1)
  /\ UNCHANGED << input, options, status, settings, visited, nodes, flatMap,
                  calls, members, err, ret, result, run, prevPaths >>

\* Walk after walkRecursive returned: the error alone, or the root and the
\* copy of the flat map.
WalkReturn ==
  /\ status = "running"
  /\ stack = <<>>
  /\ result' = WalkResult(ret, flatMap, err)
  /\ status' = IF err # NoErr THEN "err" ELSE "ok"
  /\ UNCHANGED << input, options, settings, visited, stack, nodes, flatMap,
                  calls, members, err, ret, run, prevPaths >>

VisitedPaths == { calls[k].path : k \in 1..Len(calls) }

\* A second, independent Walk of the same object with the same options: every
\* call owns a fresh visited set, flat map and node store.
WalkAgain ==
  /\ status = "ok"
  /\ run = 1
  /\ run' = 2
  /\ prevPaths' = VisitedPaths
  /\ status' = "idle"
  /\ settings' = defaultSettings
  /\ visited' = {}
  /\ nodes' = <<>>
  /\ flatMap' = {}
  /\ calls' = <<>>
  /\ members' = <<>>
  /\ ret' = NoNode
  /\ result' = NoResult
  /\ UNCHANGED << input, options, stack, err >>

Next ==
  \/ WalkCall
  \/ Enter
  \/ Callback
  \/ Descend
  \/ Return
  \/ Unwind
  \/ WalkReturn
  \/ WalkAgain

Spec == Init /\ [][Next]_vars

\* The call runs to its end without interruption: single-threaded, synchronous.
FairSpec == Spec /\ WF_vars(Next)

\* ------------------------------------------------------ graph reachability
\* The values one step (dereference, member, element, map entry) from a value.
Succ(heap, id) ==
  LET v == heap[id]
  IN  (IF v.kind = "ptr" /\ v.addr # 0 THEN { v.elem } ELSE {})
        \cup { v.fields[i].val : i \in 1..Len(v.fields) }
        \cup { v.elems[i] : i \in 1..Len(v.elems) }
        \cup { e.val : e \in v.entries }

RECURSIVE ReachFrom(_, _, _)
ReachFrom(heap, S, n) ==
  IF n < 0 THEN {}
  ELSE IF n = 0 THEN S
  ELSE ReachFrom(heap,
         S \cup UNION { Succ(heap, id) \ { NoVal } : id \in S \ { NoVal } }, n - 1)

\* The value is an ancestor of itself: some chain of references leads back to it.
OnCycle(heap, id) == id \in ReachFrom(heap, Succ(heap, id), Len(heap))

Finished == status \in { "ok", "err", "panic" }
CallsOf(id, val) ==
  { k \in 1..Len(calls) : calls[k].fn = id /\ calls[k].val = val }
FlatPaths(fm) == { e.path : e \in fm }
NodeIds == 1..Len(nodes)

\* ------------------------------------------------------------------ claims

\* C1: when a callback returns an error, Walk returns that very error with a
\* nil root and a nil flat map, and the failing invocation is the last one: no
\* later-registered callback on the node and no callback on another node runs.
C1_ErrorPropagates ==
  /\ \A k \in 1..Len(calls) : calls[k].err # NoErr => k = Len(calls)
  /\ status = "err" =>
       /\ calls # <<>>
       /\ calls[Len(calls)].err # NoErr
       /\ result = [root |-> NoNode, flatNil |-> TRUE, flat |-> {},
                    err |-> calls[Len(calls)].err]
       /\ \E i \in 1..Len(settings.userFuncs) :
            /\ settings.userFuncs[i].id = calls[Len(calls)].fn
            /\ settings.userFuncs[i].err = result.err
  /\ status = "ok" => \A k \in 1..Len(calls) : calls[k].err = NoErr

\* The first of two callbacks failed on the third visited node: the second
\* callback did not run there, and members of the graph are left unvisited.
C1_Witness ==
  /\ status = "err"
  /\ input = Input(HeapNested, 1)
  /\ Len(settings.userFuncs) = 2
  /\ Len(calls) = 5
  /\ calls[5].fn = 1
  /\ calls[5].val = 3

\* C2: every call of Walk comes to an end, on graphs with reference cycles
\* (pointer cycle, self-containing map and slice) and for every maximum depth.
C2_Terminates == (status = "running") ~> Finished

\* A self-containing map was walked down to the depth ceiling and the call
\* returned.
C2_Witness ==
  /\ status = "ok"
  /\ input = Input(HeapSelfMap, 1)
  /\ settings.maxDepth = DefaultMaxDepth
  /\ Len(nodes) = DefaultMaxDepth + 1

\* C3: a value that is its own ancestor is passed to each callback at most
\* once, and the root (when the depth guard lets the walk visit it at all)
\* exactly once, whichever kind carries the back reference.
C3_AncestorOnce ==
  status = "ok" =>
    \A id \in 1..Len(Heap) : \A i \in 1..Len(settings.userFuncs) :
      OnCycle(Heap, id) =>
        /\ Cardinality(CallsOf(i, id)) <= 1
        /\ (id = input.root /\ settings.maxDepth >= 0) =>
             Cardinality(CallsOf(i, id)) = 1

\* C4: no location deeper than the configured maximum is passed to a callback
\* or stored in the flat map; with MaxDepth(1) the walk of the record nested
\* three levels deep (handed over by value or by pointer) visits exactly the
\* root and what lies one step below it, and never the innermost member
\* (MaxDepth(1) being the only option that prunes).
InnermostVal == Len(HeapNested)
C4_DepthCeiling ==
  /\ \A k \in 1..Len(calls) : calls[k].depth <= settings.maxDepth
  /\ \A e \in flatMap : nodes[e.node].depth <= settings.maxDepth
  /\ ( /\ status = "ok"
       /\ input.heap = HeapNested
       /\ settings.maxDepth = 1
       /\ settings.tagFilter.fn = "nil"
       /\ ~settings.onlySettable ) =>
       LET level1 == { input.root } \cup Succ(Heap, input.root)
       IN  /\ { calls[k].val : k \in 1..Len(calls) } = level1
           /\ { nodes[e.node].val : e \in result.flat } = level1
           /\ Cardinality(result.flat) = 2
           /\ InnermostVal \notin level1

\* MaxDepth(1) over the nested record handed over by value: the root and its
\* member Field1 were visited, and the walk returned.
C4_Witness ==
  /\ status = "ok"
  /\ input = Input(HeapNested, 2)
  /\ settings.maxDepth = 1
  /\ VisitedPaths =
       { "struct { Field1 struct { SubField1 struct { SubSubField1 int } } }",
         "struct { Field1 struct { SubField1 struct { SubSubField1 int } } }.Field1" }

\* C5: with a type filter configured, a location is passed to the callbacks
\* and recorded in the flat map only if the filter accepts its type.
C5_TypeFilterGates ==
  settings.typeFilter.fn # "nil" =>
    /\ \A k \in 1..Len(calls) :
         TypeFilterAccepts(settings.typeFilter, calls[k].meta.Type)
    /\ \A e \in flatMap :
         TypeFilterAccepts(settings.typeFilter, nodes[e.node].Type)

\* C6: the struct loop goes on to walk a member exactly when the tag filter
\* (if any) accepts the member's tag and neither the privacy nor the
\* settability option excludes it; with TagExists("filter","true") the tagged
\* member is visited and its untagged sibling is not.
HasPair(tag, key, vals) ==
  \E i \in 1..Len(tag) :
    /\ tag[i][1] = key
    /\ vals = <<>> \/ \E j \in 1..Len(vals) : vals[j] = tag[i][2]
TaggedRoot == "struct { Field1 int \"filter:\\\"true\\\"\"; Field2 string }"
C6_TagFilter ==
  /\ \A k \in 1..Len(members) :
       LET m == members[k]
           f == settings.tagFilter
       IN  m.descended <=>
             /\ f.fn = "TagExists" => HasPair(m.tag, f.key, f.vals)
             /\ settings.includePrivate \/ m.exported
             /\ ~settings.onlySettable \/ m.canSet
  /\ ( /\ status = "ok"
       /\ input = Input(HeapTagged, 1)
       /\ settings.tagFilter = TagExists("filter", << "true" >>)
       /\ settings.maxDepth >= 1 ) =>
       /\ (TaggedRoot \o ".Field1") \in VisitedPaths
       /\ (TaggedRoot \o ".Field2") \notin VisitedPaths
       /\ (TaggedRoot \o ".Field1") \in FlatPaths(result.flat)
       /\ (TaggedRoot \o ".Field2") \notin FlatPaths(result.flat)

\* The walk with TagExists("filter","true") decided on both members and
\* visited the tagged one.
C6_Witness ==
  /\ status = "ok"
  /\ input = Input(HeapTagged, 1)
  /\ settings.tagFilter = TagExists("filter", << "true" >>)
  /\ Len(members) = 2
  /\ members[1].descended
  /\ ~members[2].descended
  /\ (TaggedRoot \o ".Field1") \in VisitedPaths

\* C7: with a metadata filter configured, a node the filter rejects is not
\* passed to a callback, not stored in the flat map and not part of the tree.
C7_MetaFilterPrunes ==
  settings.metaFilter.fn # "nil" =>
    /\ \A k \in 1..Len(calls) :
         MetaFilterAccepts(settings.metaFilter, calls[k].meta)
    /\ \A e \in flatMap : MetaFilterAccepts(settings.metaFilter, nodes[e.node])
    /\ \A n \in NodeIds : MetaFilterAccepts(settings.metaFilter, nodes[n])

\* The slots of Children lists that hold node n, and the walk from a node up
\* its Parent links to the returned root.
ChildSlots(n) ==
  { << p, i >> \in NodeIds \X (1..Len(nodes)) :
      i <= Len(nodes[p].Children) /\ nodes[p].Children[i] = n }
RECURSIVE ReachesRoot(_, _)
ReachesRoot(n, fuel) ==
  IF n = result.root THEN TRUE
  ELSE IF fuel = 0 \/ nodes[n].Parent = NoNode THEN FALSE
  ELSE ReachesRoot(nodes[n].Parent, fuel - 1)
\* The returned nodes form one finite tree: there is a root, it has no Parent
\* and is nobody's child, every other node is in the Children of exactly one
\* node, once, its Parent is that node, and no node is its own ancestor; the
\* flat map holds nodes of that tree only.
OneRootedTree ==
  /\ result.root \in NodeIds
  /\ nodes[result.root].Parent = NoNode
  /\ ChildSlots(result.root) = {}
  /\ \A n \in NodeIds \ { result.root } :
       /\ Cardinality(ChildSlots(n)) = 1
       /\ \A slot \in ChildSlots(n) : nodes[n].Parent = slot[1]
       /\ nodes[n].Parent # n
       /\ ReachesRoot(n, Len(nodes))
  /\ \A e \in result.flat : e.node \in NodeIds

\* C8 as stated: after every successful Walk the returned nodes form a finite
\* tree with exactly one root.  Walk(x, MaxDepth(-1)) succeeds and returns no
\* root at all.
C8_EveryWalkRooted ==
  status = "ok" => OneRootedTree

\* C8, amended: after a successful Walk whose maximum depth is not negative
\* the returned nodes form one finite tree with exactly one root (the root
\* has no Parent, every other node is in the Children of exactly one node and
\* its Parent is that node, no node is its own ancestor); with a negative
\* maximum depth the successful Walk returns a nil root, an empty flat map and
\* no node at all.
C8_Tree ==
  status = "ok" =>
    IF settings.maxDepth < 0
    THEN /\ result.root = NoNode
         /\ result.flat = {}
         /\ nodes = << >>
    ELSE OneRootedTree

\* The pointer cycle was walked: pointer and record are in the tree, the back
\* reference is not.
C8_Witness ==
  /\ status = "ok"
  /\ input = Input(HeapPtrCycle, 1)
  /\ settings.maxDepth >= 0
  /\ Len(nodes) = 2
  /\ nodes[1].Children = << 2 >>
  /\ Len(members) = 1

\* C9: no two distinct nodes of one Walk have the same Path, so the flat map
\* has exactly one entry for every node.
C9_UniquePaths ==
  status = "ok" =>
    /\ \A a, b \in NodeIds : a # b => nodes[a].Path # nodes[b].Path
    /\ Cardinality(result.flat) = Len(nodes)

\* C10: a second walk of the same graph with the same options visits the same
\* set of paths as the first, whatever the order of the map keys.
C10_SamePathSet ==
  (run = 2 /\ status = "ok") =>
    /\ VisitedPaths = prevPaths
    /\ FlatPaths(result.flat) = prevPaths


\* C11: a Walk whose callbacks return no error never panics and returns a nil
\* error, whatever the input: a nil root, nil pointer and nil interface
\* members, and unexported members under the default settings.
C11_NoPanic ==
  /\ status # "panic"
  /\ (Finished /\ \A k \in 1..Len(calls) : calls[k].err = NoErr) =>
       status = "ok" /\ result.err = NoErr


\* C12: when the root is a non-nil pointer to a record, the node of every
\* exported member of that record has CanSet true (the handle the callback
\* receives is settable); the root handle itself, made by reflect.ValueOf, is
\* not settable and its node has CanSet false.
RootIsRecordPointer ==
  /\ input.root # NoVal
  /\ Heap[input.root].kind = "ptr"
  /\ Heap[input.root].addr # 0
  /\ Heap[Heap[input.root].elem].kind = "struct"
ExportedMemberPaths ==
  { members[k].path : k \in { j \in 1..Len(members) : members[j].exported } }
C12_MemberSettable ==
  /\ \A k \in 1..Len(calls) :
       calls[k].depth = 0 => ~calls[k].meta.CanSet
  /\ RootIsRecordPointer =>
       \A k \in 1..Len(calls) :
         (calls[k].depth = 2 /\ calls[k].path \in ExportedMemberPaths)
           => calls[k].meta.CanSet


\* C13: with OnlySettable() the exported members of a record reached through
\* a non-nil root pointer (the settable ones) are still visited and recorded,
\* and the members of a record handed over by value (not settable) are
\* neither visited nor recorded.
RootPath == TypeName(Heap[input.root])
C13_OnlySettable ==
  (settings.onlySettable /\ status = "ok") =>
    /\ Heap[input.root].kind = "struct" =>
         \A i \in 1..Len(Heap[input.root].fields) :
           LET p == MemberPath(RootPath, Heap[input.root].fields[i])
           IN  p \notin VisitedPaths /\ p \notin FlatPaths(result.flat)
    /\ (RootIsRecordPointer /\ settings.maxDepth >= 2) =>
         LET rec == Heap[Heap[input.root].elem]
         IN  \A i \in 1..Len(rec.fields) :
               LET f == rec.fields[i]
                   p == MemberPath(DerefPath(RootPath), f)
               IN  (f.exported /\ f.val # NoVal) =>
                     p \in VisitedPaths /\ p \in FlatPaths(result.flat)


\* C14: the node of a record member has IsPrivate true exactly when the
\* member is unexported in its declaring record, whatever the member's type.
C14_IsPrivateIsUnexported ==
  \A n \in NodeIds : \A k \in 1..Len(members) :
    (members[k].descended /\ members[k].path = nodes[n].Path) =>
      (nodes[n].IsPrivate <=> ~members[k].exported)


\* C15: at every visited node the registered callbacks run in registration
\* order, all of them before any callback of another node, after the node was
\* stored in the flat map and before any descendant is walked; a node is
\* appended to Children and gets its Parent only after its own frame has
\* returned, so the copy a callback receives has no Parent and no Children.
CallbackIdsOf(n) == { calls[k].fn : k \in { j \in 1..Len(calls) : calls[j].node = n } }
C15_CallbackOrder ==
  /\ \A k \in 1..Len(calls) :
       /\ calls[k].meta.Parent = NoNode
       /\ calls[k].meta.Children = <<>>
       /\ calls[k].path \in FlatPaths(flatMap)
       /\ calls[k].fn = settings.userFuncs[calls[k].fn].id
       /\ \/ calls[k].fn = 1
          \/ /\ k > 1
             /\ calls[k - 1].node = calls[k].node
             /\ calls[k - 1].fn + 1 = calls[k].fn
       /\ (k < Len(calls) /\ calls[k].fn < Len(settings.userFuncs)) =>
            calls[k + 1].node = calls[k].node
  /\ \A i \in 1..Len(stack) :
       LET fr == stack[i]
       IN  /\ i < Len(stack) => fr.pc = "children"
           /\ fr.pc = "callbacks" =>
                [path |-> fr.path, node |-> fr.meta] \in flatMap
           /\ fr.pc = "children" =>
                CallbackIdsOf(fr.meta) = 1..Len(settings.userFuncs)
           /\ fr.meta # NoNode =>
                /\ nodes[fr.meta].Parent = NoNode
                /\ \A p \in NodeIds : \A c \in 1..Len(nodes[p].Children) :
                     nodes[p].Children[c] # fr.meta

\* Two callbacks ran on each of the four nodes of the README's object, and the
\* two members were attached to the record after their callbacks.
C15_Witness ==
  /\ status = "ok"
  /\ input = Input(HeapReadme, 1)
  /\ Len(settings.userFuncs) = 2
  /\ Len(calls) = 8
  /\ calls[3].node = 2 /\ calls[3].fn = 1
  /\ calls[4].node = 2 /\ calls[4].fn = 2
  /\ nodes[2].Children = << 3, 4 >>
  /\ nodes[3].Parent = 2


\* C16: with no filter configured, every value that some chain of at most
\* maxDepth steps (dereference, member, index, map entry) reaches from the
\* root is passed to the callbacks at least once, also when a shared pointer
\* is first met through a longer chain that the depth guard cuts.
NoFilters ==
  /\ settings.tagFilter.fn = "nil"
  /\ settings.typeFilter.fn = "nil"
  /\ settings.metaFilter.fn = "nil"
  /\ ~settings.onlySettable
C16_Coverage ==
  (status = "ok" /\ NoFilters) =>
    ReachFrom(Heap, { input.root }, settings.maxDepth)
      \subseteq { calls[k].val : k \in 1..Len(calls) }

====
